---- MODULE Spec2Model ----
(***************************************************************************)
(* A state-machine model of MediaManager (src/main/webapp/js/              *)
(* media_manager.js): the local stream, its tracks, the capture            *)
(* constraints, the two recurring timers and every asynchronous            *)
(* continuation (getUserMedia, getDisplayMedia, enumerateDevices,          *)
(* RTCRtpSender.replaceTrack) that the public operations leave in flight.  *)
(*                                                                         *)
(* Media tracks and media streams are heap objects: a track is an index    *)
(* into `tracks`, a stream an index into `streams` (an ordered list of     *)
(* track ids, as getAudioTracks()[0] depends on insertion order).  The     *)
(* synchronous part of every method runs atomically (JavaScript runs to    *)
(* completion); each await on a platform promise is a pending entry of     *)
(* `tasks` that a later step resolves or rejects.                          *)
(***************************************************************************)
EXTENDS Integers, Sequences, FiniteSets, TLC

\* ------------------------------------------------------------------ bounds
\* number of user-issued operations in one behaviour
MaxOps == 3
\* number of platform promises the environment may reject in one behaviour
MaxFails == 1
\* number of firings of the blank-frame timer in one behaviour
MaxTicks == 1
\* number of operations called in one behaviour of a caller that waits for
\* the promise of the previous operation only
MaxOverlapOps == 4
\* number of device-change notifications in one behaviour
MaxDeviceChanges == 2

Null == 0
\* senderTrack value when the registry holds no sender of that kind
NoSender == 0 - 1
\* currentVolume value when no volume was ever set (null)
NoVolume == 0 - 1
\* gain 1.0, in tenths
Unity == 10
\* maxBitrate of an encoding that has no such member
NoBitrate == 0 - 1
\* the bandwidth argument 'unlimited'
Unlimited == 0 - 2
\* camera_margin and camera_percent as the constructor sets them
DefaultMargin == 15
DefaultPercent == 15

VARIABLES
    tracks,                      \* heap of MediaStreamTrack objects
    streams,                     \* heap of MediaStream objects
    localStream,                 \* this.localStream (0 = null)
    desktopStream,               \* this.desktopStream
    replacementStream,           \* this.replacementStream
    smallVideoTrack,             \* this.smallVideoTrack
    previousAudioTrack,          \* this.previousAudioTrack
    tempTracks,                  \* this.tempTracks
    mediaConstraints,            \* this.mediaConstraints
    publishMode,                 \* this.publishMode
    audioMode,                   \* this.audioMode
    cameraEnabled,               \* this.cameraEnabled
    isMuted,                     \* this.isMuted
    blackFrameTimer,             \* this.blackFrameTimer # null
    drawTimers,                  \* live setInterval(draw, 66) timers
    audioContext,                \* identity of this.audioContext
    primaryAudioTrackGainNode,   \* [ctx, gain], ctx = 0 when null
    secondaryAudioTrackGainNode, \* [ctx, gain], ctx = 0 when null
    currentVolume,               \* this.currentVolume, -1 when null
    senderTrack,                 \* the sender registry: kind -> track sent
    videoParameters,             \* the video sender's RTCRtpSendParameters
    camera_location,             \* this.camera_location
    camera_margin,               \* this.camera_margin
    camera_percent,              \* this.camera_percent
    initialized,                 \* this.initialized
    deviceListeners,             \* 'devicechange' listeners registered
    tasks,                       \* pending platform promises, oldest first
    ops,                         \* the user operations still in progress
    nops,                        \* history: user operations called so far
    fails,                       \* history: platform rejections so far
    ticks,                       \* history: blank-frame timer firings
    deviceChanges,               \* history: device-change notifications
    capped,                      \* history: changeBandwidth has set a
                                 \* numeric cap on the video sender
    overlap,                     \* history: two video switch operations
                                 \* were in progress at once
    last                         \* history: the step just taken

vars == <<tracks, streams, localStream, desktopStream, replacementStream,
          smallVideoTrack, previousAudioTrack, tempTracks, mediaConstraints,
          publishMode, audioMode, cameraEnabled, isMuted, blackFrameTimer,
          drawTimers, audioContext, primaryAudioTrackGainNode,
          secondaryAudioTrackGainNode, currentVolume, senderTrack,
          videoParameters, camera_location, camera_margin, camera_percent,
          initialized, deviceListeners,
          tasks, ops, nops, fails, ticks, deviceChanges, capped, overlap,
          last>>

\* The whole state as one record, so that a method is an operator from
\* state to state; ret carries a method's return value (a stream or track).
S ==
    [tracks |-> tracks, streams |-> streams, localStream |-> localStream,
     desktopStream |-> desktopStream, replacementStream |-> replacementStream,
     smallVideoTrack |-> smallVideoTrack,
     previousAudioTrack |-> previousAudioTrack, tempTracks |-> tempTracks,
     mediaConstraints |-> mediaConstraints, publishMode |-> publishMode,
     audioMode |-> audioMode, cameraEnabled |-> cameraEnabled,
     isMuted |-> isMuted, blackFrameTimer |-> blackFrameTimer,
     drawTimers |-> drawTimers, audioContext |-> audioContext,
     primaryAudioTrackGainNode |-> primaryAudioTrackGainNode,
     secondaryAudioTrackGainNode |-> secondaryAudioTrackGainNode,
     currentVolume |-> currentVolume, senderTrack |-> senderTrack,
     videoParameters |-> videoParameters, camera_location |-> camera_location,
     camera_margin |-> camera_margin, camera_percent |-> camera_percent,
     initialized |-> initialized, deviceListeners |-> deviceListeners,
     tasks |-> tasks, ops |-> ops, nops |-> nops, fails |-> fails,
     ticks |-> ticks, deviceChanges |-> deviceChanges, capped |-> capped,
     overlap |-> overlap, last |-> last, ret |-> Null]

\* ------------------------------------------------------- platform objects
Range(q) == {q[i] : i \in 1..Len(q)}

First(q) == IF q = <<>> THEN Null ELSE q[1]

\* a MediaStreamTrack as the platform hands it out: live and enabled
Track(kind, src) == [kind |-> kind, src |-> src, live |-> TRUE, enabled |-> TRUE]

\* allocate a track; its id is LastTrack of the result
NewTrack(s, kind, src) == [s EXCEPT !.tracks = Append(@, Track(kind, src))]

LastTrack(s) == Len(s.tracks)

\* new MediaStream(ts); its id is LastStream of the result
NewStream(s, ts) == [s EXCEPT !.streams = Append(@, ts)]

LastStream(s) == Len(s.streams)

\* MediaStream.getAudioTracks()
getAudioTracks(s, st) ==
    SelectSeq(s.streams[st], LAMBDA t : s.tracks[t].kind = "audio")

\* MediaStream.getVideoTracks()
getVideoTracks(s, st) ==
    SelectSeq(s.streams[st], LAMBDA t : s.tracks[t].kind = "video")

\* MediaStreamTrack.stop(); t = Null stands for an optional call `t?.stop()`
stop(s, t) == IF t = Null THEN s ELSE [s EXCEPT !.tracks[t].live = FALSE]

\* MediaStream.addTrack(t): a track already in the stream is not added again
addTrack(s, st, t) ==
    IF t = Null \/ t \in Range(s.streams[st]) THEN s
    ELSE [s EXCEPT !.streams[st] = Append(@, t)]

\* MediaStream.removeTrack(t)
removeTrack(s, st, t) ==
    [s EXCEPT !.streams[st] = SelectSeq(@, LAMBDA x : x # t)]

RECURSIVE stopAll(_, _)
\* tracks.forEach(track => track.stop())
stopAll(s, q) == IF q = <<>> THEN s ELSE stopAll(stop(s, Head(q)), Tail(q))

\* ------------------------------------------------------------ constraints
\* One member of the Capture Constraint Set: undefined, a boolean, or an
\* object with an optional deviceId and an optional facingMode.
UndefCon == [t |-> "undef", b |-> FALSE, deviceId |-> "none", facingMode |-> "none"]

BoolCon(b) == [t |-> "bool", b |-> b, deviceId |-> "none", facingMode |-> "none"]

ObjCon(d, f) == [t |-> "obj", b |-> FALSE, deviceId |-> d, facingMode |-> f]

\* JavaScript truthiness of a constraint
Truthy(c) == c.t = "obj" \/ (c.t = "bool" /\ c.b)

\* this.mediaConstraints = null, as the constructor leaves it
NullConstraints == [isNull |-> TRUE, video |-> UndefCon, audio |-> UndefCon]

Constraints(v, a) == [isNull |-> FALSE, video |-> v, audio |-> a]

\* getMediaConstraints(): a shallow copy ({...null} is {}); audioMode is
\* always one of the three mode names here, so audio is never forced off
getMediaConstraints(s) ==
    IF s.mediaConstraints.isNull THEN Constraints(UndefCon, UndefCon)
    ELSE s.mediaConstraints

\* ---------------------------------------------------------------- history
\* a user operation in progress: the result of its promise, the kind of a
\* replaceTrack issued on its behalf that was rejected, and whether a
\* display capture made for it was denied and the fallback was not overridden
OpRec(name) ==
    [name |-> name, res |-> "pending", replaceFailed |-> "none",
     fallback |-> FALSE]

\* a slot of `ops` that holds no operation
FreeOp ==
    [name |-> "none", res |-> "none", replaceFailed |-> "none",
     fallback |-> FALSE]

\* what one run of the compositor's draw callback did: the size the screen
\* video had, the size given to the canvas (pixels) and the rectangle the
\* camera was drawn into (hundredths of a pixel); all zero for a step that
\* draws nothing
NoDraw ==
    [videoWidth |-> 0, videoHeight |-> 0, canvasWidth |-> 0,
     canvasHeight |-> 0, cameraWidth |-> 0, cameraHeight |-> 0,
     positionX |-> 0, positionY |-> 0]

\* the step just taken: the method or continuation, the operation it belongs
\* to (and, once committed, that operation's record), its outcome, the
\* kind of track it was about, a numeric argument it was called with, what
\* it drew, the device id and whether a stream id it was called with, and
\* what became of a live constraint update it made on the video track
\* ("none" when it made none, "notrack", "ok" or "rejected")
Step(a, op, out, kind) ==
    [a |-> a, op |-> op, out |-> out, kind |-> kind, rec |-> FreeOp,
     arg |-> 0, draw |-> NoDraw, deviceId |-> "none", sid |-> FALSE,
     live |-> "none"]

\* the public operations that replace the video track
VideoSwitchOps ==
    {"switchVideoCameraCapture", "switchVideoCameraFacingMode",
     "switchDesktopCapture", "switchDesktopCaptureWithCamera"}

\* no two video switch operations are known to have overlapped
NoOverlap == [on |-> FALSE, base |-> <<>>]

\* the operations that still wait for a platform promise
InProgress(s) ==
    {o \in DOMAIN s.ops : \E i \in 1..Len(s.tasks) : s.tasks[i].op = o}

\* the tracks the pending continuations hold: the track or the stream each
\* was given
Held(s) ==
    {s.tasks[i].track : i \in 1..Len(s.tasks)}
        \cup UNION {{s.streams[s.tasks[i].stream][j] :
                        j \in 1..Len(s.streams[s.tasks[i].stream])} :
                       i \in {k \in 1..Len(s.tasks) : s.tasks[k].stream # Null}}

\* what the call of operation `name` in state s makes of the history of
\* overlapping switches: a video switch called while exactly one other
\* video switch, and nothing else, is in progress starts it, with the
\* video tracks that neither operation can have acquired (those that exist
\* and that no pending continuation holds); every other call ends it
Overlapping(s, name) ==
    IF /\ name \in VideoSwitchOps
       /\ Cardinality(InProgress(s)) = 1
       /\ \A o \in InProgress(s) : s.ops[o].name \in VideoSwitchOps
       /\ \A i \in 1..Len(s.tasks) : s.tasks[i].op \in InProgress(s)
    THEN [on |-> TRUE,
          base |-> SelectSeq([t \in 1..Len(s.tracks) |-> t],
                             LAMBDA t : /\ s.tracks[t].kind = "video"
                                        /\ t \notin Held(s))]
    ELSE NoOverlap

\* the slots of `ops`
Slots == 1..(IF MaxOps > MaxOverlapOps THEN MaxOps ELSE MaxOverlapOps)

\* a user operation starts, in the first free slot; its id is CurOp
Begin(s, name) ==
    LET op == CHOOSE i \in Slots :
                  /\ s.ops[i].name = "none"
                  /\ \A j \in 1..(i - 1) : s.ops[j].name # "none"
    IN  [s EXCEPT !.ops[op] = OpRec(name),
                  !.nops = @ + 1,
                  !.overlap = Overlapping(s, name),
                  !.last = Step(name, op, "called", "none")]

CurOp(s) == s.last.op

\* the promise of operation op settles (a settled promise stays settled)
Settle(s, op, res) ==
    IF s.ops[op].res = "pending"
    THEN [s EXCEPT !.ops[op].res = res, !.last.out = res]
    ELSE s

\* a pending platform promise and what its continuation captured: the
\* operation it works for, the stream id, stream and track it was given, a
\* flag (stopDesktop, mix, or "localStream was null"), the calls of
\* prepareStream still to make once a stream arrives (one stream id each,
\* innermost first), the kinds requested, and a device id
Task(k, op) ==
    [k |-> k, op |-> op, sid |-> FALSE, stream |-> Null, track |-> Null,
     kind |-> "none", flag |-> FALSE, frames |-> <<>>, wv |-> FALSE,
     wa |-> FALSE, arg |-> "none"]

Await(s, task) == [s EXCEPT !.tasks = Append(@, task)]

\* this.getSender(streamId, kind): the registry answers for the published
\* stream id only (sid is FALSE where the code passes an undefined id)
getSender(s, sid, kind) == sid /\ s.senderTrack[kind] # NoSender

\* ------------------------------------------------------------- mute flags
\* a variant that walks getTracks() instead of getAudioTracks()
setAudioEnabled_EveryTrack(s, e) ==
    IF s.localStream = Null THEN s
    ELSE [s EXCEPT !.tracks =
             [t \in 1..Len(s.tracks) |->
                 IF t \in Range(s.streams[s.localStream])
                 THEN [s.tracks[t] EXCEPT !.enabled = e]
                 ELSE s.tracks[t]]]

\* localStream.getAudioTracks().forEach(track => track.enabled = e)
setAudioEnabled(s, e) ==
    IF s.localStream = Null THEN s
    ELSE [s EXCEPT !.tracks =
             [t \in 1..Len(s.tracks) |->
                 IF t \in Range(s.streams[s.localStream])
                    /\ s.tracks[t].kind = "audio"
                 THEN [s.tracks[t] EXCEPT !.enabled = e]
                 ELSE s.tracks[t]]]

muteLocalMic(s) == setAudioEnabled([s EXCEPT !.isMuted = TRUE], FALSE)

unmuteLocalMic(s) == setAudioEnabled([s EXCEPT !.isMuted = FALSE], TRUE)

\* ------------------------------------------------------------ local stream
gotStream(s, st) == [s EXCEPT !.localStream = st]

updateLocalAudioStream(s, st) ==
    LET newAudioTrack == First(getAudioTracks(s, st))
        audioTrack == First(getAudioTracks(s, s.localStream))
        s1 == IF s.localStream # Null
              THEN IF audioTrack # Null /\ audioTrack # newAudioTrack
                   THEN LET r == removeTrack(
                                   [s EXCEPT !.tempTracks = Append(@, audioTrack)],
                                   s.localStream, audioTrack)
                        IN  IF newAudioTrack # Null
                            THEN addTrack(r, s.localStream, newAudioTrack)
                            ELSE r
                   ELSE IF newAudioTrack # Null
                        THEN addTrack(s, s.localStream, newAudioTrack)
                        ELSE s
              ELSE [s EXCEPT !.localStream = st]
    IN  IF s1.isMuted THEN muteLocalMic(s1) ELSE unmuteLocalMic(s1)

updateLocalVideoStream(s, st, stopDesktop) ==
    LET s1 == IF stopDesktop /\ s.desktopStream # Null
              THEN stop(s, First(getVideoTracks(s, s.desktopStream)))
              ELSE s
        newVideoTrack == First(getVideoTracks(s1, st))
        videoTrack == IF s1.localStream = Null THEN Null
                      ELSE First(getVideoTracks(s1, s1.localStream))
    IN  IF s1.localStream # Null /\ videoTrack # Null
        THEN addTrack(stop(removeTrack(s1, s1.localStream, videoTrack), videoTrack),
                      s1.localStream, newVideoTrack)
        ELSE IF s1.localStream # Null
             THEN addTrack(s1, s1.localStream, newVideoTrack)
             ELSE [s1 EXCEPT !.localStream = st]

\* ------------------------------------------------------- track replacement
\* updateAudioTrack: with a sender, await its replaceTrack
updateAudioTrack(s, st, sid, op) ==
    IF getSender(s, sid, "audio")
    THEN Await(s, [Task("replaceTrack", op) EXCEPT
                      !.stream = st, !.track = First(getAudioTracks(s, st)),
                      !.kind = "audio"])
    ELSE updateLocalAudioStream(s, st)

\* updateVideoTrack: with a sender, await its replaceTrack
updateVideoTrack(s, st, sid, stopDesktop, op) ==
    IF getSender(s, sid, "video")
    THEN Await(s, [Task("replaceTrack", op) EXCEPT
                      !.stream = st, !.track = First(getVideoTracks(s, st)),
                      !.kind = "video", !.flag = stopDesktop])
    ELSE updateLocalVideoStream(s, st, stopDesktop)

\* -------------------------------------------------------------- audio graph
NoGain == [ctx |-> 0, gain |-> 0]

\* setGainNodeStream(stream) for a stream that was acquired; ret is the
\* stream returned
setGainNodeStream(s, st) ==
    IF Truthy(getMediaConstraints(s).audio)
    THEN LET ctx == s.audioContext + 1
             s1 == NewTrack(s, "audio", "gain")
             out == LastTrack(s1)
             \* mediaStreamDestination.stream, then the input's video tracks
             \* and audio tracks added to it
             s2 == NewStream(s1, <<out>> \o getVideoTracks(s, st)
                                       \o getAudioTracks(s, st))
             controlledStream == LastStream(s2)
             s3 == stop(s2, s2.previousAudioTrack)
             ctl == getAudioTracks(s3, controlledStream)
         IN  [s3 EXCEPT
                 !.audioContext = ctx,
                 !.primaryAudioTrackGainNode =
                     [ctx |-> ctx,
                      gain |-> IF s.currentVolume = NoVolume THEN Unity
                               ELSE s.currentVolume],
                 !.previousAudioTrack = IF Len(ctl) >= 2 THEN ctl[2] ELSE Null,
                 !.ret = controlledStream]
    ELSE [s EXCEPT !.ret = st]

\* mixAudioStreams(stream, secondStream); ret is the composed stream
mixAudioStreams(s, st, secondStream) ==
    LET ctx == s.audioContext + 1
        s1 == NewTrack(s, "audio", "mix")
        out == LastTrack(s1)
        s2 == NewStream(s1, Append(getVideoTracks(s, st), out))
    IN  [s2 EXCEPT
            !.audioContext = ctx,
            !.primaryAudioTrackGainNode =
                IF getAudioTracks(s, st) # <<>>
                THEN [ctx |-> ctx, gain |-> Unity] ELSE @,
            !.secondaryAudioTrackGainNode =
                IF getAudioTracks(s, secondStream) # <<>>
                THEN [ctx |-> ctx, gain |-> Unity] ELSE @,
            !.ret = LastStream(s2)]

\* enableSecondStreamInMixedAudio(enable): with no secondary branch the
\* statement `reeturn` is evaluated, a ReferenceError
enableSecondStreamInMixedAudio(s, enable, op) ==
    IF s.secondaryAudioTrackGainNode = NoGain THEN Settle(s, op, "fail")
    ELSE Settle([s EXCEPT !.secondaryAudioTrackGainNode.gain =
                              IF enable THEN Unity ELSE 0],
                op, "ok")

\* a variant that sets the gains and does not remember the level
setVolumeLevel_NotRemembered(s, volumeLevel) ==
    [s EXCEPT
        !.primaryAudioTrackGainNode.gain =
            IF s.primaryAudioTrackGainNode # NoGain THEN volumeLevel ELSE @,
        !.secondaryAudioTrackGainNode.gain =
            IF s.secondaryAudioTrackGainNode # NoGain THEN volumeLevel ELSE @]

\* setVolumeLevel(volumeLevel), the level in tenths
setVolumeLevel(s, volumeLevel) ==
    [s EXCEPT
        !.currentVolume = volumeLevel,
        !.primaryAudioTrackGainNode.gain =
            IF s.primaryAudioTrackGainNode # NoGain THEN volumeLevel ELSE @,
        !.secondaryAudioTrackGainNode.gain =
            IF s.secondaryAudioTrackGainNode # NoGain THEN volumeLevel ELSE @]

\* ---------------------------------------------------------- video compositor
\* the sizes a shared screen or window reports as videoWidth x videoHeight
ScreenSizes ==
    {[videoWidth |-> 1280, videoHeight |-> 720],
     [videoWidth |-> 1920, videoHeight |-> 1080]}

\* the size of the camera picture
CameraSize == [videoWidth |-> 640, videoHeight |-> 480]

CameraLocations == {"top", "bottom"}

\* a variant that measures the overlay's left edge from the canvas height
draw_HeightForX(s, screenVideo, cameraVideo) ==
    LET cameraWidth == screenVideo.videoWidth * s.camera_percent
        cameraHeight ==
            (cameraVideo.videoHeight * cameraWidth) \div cameraVideo.videoWidth
    IN  [videoWidth |-> screenVideo.videoWidth,
         videoHeight |-> screenVideo.videoHeight,
         canvasWidth |-> screenVideo.videoWidth,
         canvasHeight |-> screenVideo.videoHeight,
         cameraWidth |-> cameraWidth, cameraHeight |-> cameraHeight,
         positionX |-> screenVideo.videoHeight * 100 - cameraWidth
                       - s.camera_margin * 100,
         positionY |-> IF s.camera_location = "top"
                       THEN s.camera_margin * 100
                       ELSE screenVideo.videoHeight * 100 - cameraHeight
                            - s.camera_margin * 100]

\* the callback of setInterval in setDesktopWithCameraSource: the canvas
\* takes the size of the screen video, and the camera is drawn at
\* (positionX, positionY) with size cameraWidth x cameraHeight.  The code
\* computes in floating point; here lengths other than the canvas size are
\* in hundredths of a pixel, so that percent / 100 is exact
draw(s, screenVideo, cameraVideo) ==
    LET canvasWidth == screenVideo.videoWidth
        canvasHeight == screenVideo.videoHeight
        cameraWidth == screenVideo.videoWidth * s.camera_percent
        cameraHeight ==
            (cameraVideo.videoHeight * cameraWidth) \div cameraVideo.videoWidth
        positionX == canvasWidth * 100 - cameraWidth - s.camera_margin * 100
        positionY == IF s.camera_location = "top"
                     THEN s.camera_margin * 100
                     ELSE canvasHeight * 100 - cameraHeight
                          - s.camera_margin * 100
    IN  [videoWidth |-> screenVideo.videoWidth,
         videoHeight |-> screenVideo.videoHeight,
         canvasWidth |-> canvasWidth, canvasHeight |-> canvasHeight,
         cameraWidth |-> cameraWidth, cameraHeight |-> cameraHeight,
         positionX |-> positionX, positionY |-> positionY]

\* ------------------------------------------------------------------ devices
\* getDevices() up to its await on enumerateDevices; op is the operation
\* that awaits it (0 when nobody does), awaited tells whether initialize does
getDevices(s, op, awaited) ==
    Await(s, [Task("getDevices", op) EXCEPT !.flag = awaited])

\* trackDeviceChange(): one more listener
trackDeviceChange(s) == [s EXCEPT !.deviceListeners = @ + 1]

\* initialize() up to its await: a manager whose `initialized` is false
\* returns false at once
initialize(s, op) ==
    IF ~s.initialized THEN Settle(s, op, "false")
    ELSE getDevices(s, op, TRUE)

\* initialize() after `await this.getDevices()`
afterGetDevices(s, op) ==
    Settle([trackDeviceChange(s) EXCEPT !.initialized = TRUE], op, "ok")

\* ------------------------------------------------------------ acquisition
PublishModes == {"camera", "screen", "screen+camera"}

AudioModes == {"microphone", "system", "system+microphone"}

\* the device ids navigator.mediaDevices.enumerateDevices() lists as video
\* inputs
VideoInputs == {"d1"}

\* getMedia(mediaConstraints): display capture in the two screen modes, user
\* media otherwise; frames are the prepareStream calls waiting for the stream
getMedia(s, m, frames, op) ==
    IF s.publishMode \in {"screen+camera", "screen"}
    THEN Await(s, [Task("getDisplayMedia", op) EXCEPT
                      !.frames = frames, !.wv = (m.video # BoolCon(FALSE)),
                      !.wa = Truthy(m.audio)])
    ELSE Await(s, [Task("getUserMedia", op) EXCEPT
                      !.frames = frames, !.wv = Truthy(m.video),
                      !.wa = Truthy(m.audio)])

\* openStream(mediaConstraints, streamId) up to its await
openStream(s, mc, frames, op) ==
    LET s1 == [s EXCEPT !.mediaConstraints = mc]
        mConstraints == getMediaConstraints(s1)
    IN  IF mConstraints.video.t # "undef"
        THEN getMedia(s1, mConstraints, frames, op)
        ELSE Settle([s1 EXCEPT !.localStream = Null], op, "ok")

\* setDesktopWithCameraSource(stream, streamId, onEnded) up to its await
setDesktopWithCameraSource(s, st, sid, op) ==
    Await([s EXCEPT !.desktopStream = st],
          [Task("overlay", op) EXCEPT !.sid = sid, !.stream = st, !.wv = TRUE])

RECURSIVE prepareStream(_, _, _, _, _)
RECURSIVE afterAudio(_, _, _, _, _, _)
RECURSIVE finish(_, _, _, _)

\* prepareStreamTracks returned deviceStream: the operation resolves, or the
\* caller of a nested openStream goes on to prepare the same stream
finish(s, st, frames, op) ==
    IF frames = <<>> THEN Settle(s, op, "ok")
    ELSE prepareStream(s, st, Head(frames), Tail(frames), op)

\* prepareStreamTracks from `if (this.publishMode !== 'camera')` on, with
\* the stream prepareAudioStream returned
afterAudio(s, st, audioStream, sid, frames, op) ==
    IF s.publishMode # "camera"
    THEN finish(gotStream(updateAudioTrack(s, audioStream, sid, op), st),
                st, frames, op)
    ELSE LET a == First(getAudioTracks(s, audioStream))
         IN  IF a = Null
             THEN Settle(s, op, "fail")    \* addTrack(undefined): TypeError
             ELSE finish(gotStream(addTrack(s, st, a), st), st, frames, op)

\* prepareStream(stream, streamId) and prepareStreamTracks up to the await
\* in prepareAudioStream (audioMode 'system' awaits nothing from the platform)
prepareStream(s, st, sid, frames, op) ==
    LET s1 == stop(s, s.smallVideoTrack)
        audioConstraint == getMediaConstraints(s1).audio
        a0 == First(getAudioTracks(s1, st))
        s2 == IF a0 # Null /\ s1.publishMode = "camera"
              THEN removeTrack(stop(s1, a0), st, a0)
              ELSE s1
        s3 == IF s2.publishMode = "screen"
              THEN updateVideoTrack(s2, st, sid, TRUE, op)
              ELSE IF s2.publishMode = "screen+camera"
                   THEN setDesktopWithCameraSource(s2, st, sid, op)
                   ELSE s2
    IN  IF Truthy(audioConstraint)
        THEN IF s3.audioMode = "system"
             THEN afterAudio(s3, st, st, sid, frames, op)
             ELSE Await(s3, [Task("audio", op) EXCEPT
                               !.sid = sid, !.stream = st, !.frames = frames,
                               !.flag = (s3.audioMode = "system+microphone"),
                               !.wa = TRUE])
        ELSE finish(gotStream(s3, st), st, frames, op)

\* prepareStream(undefined, streamId): getUserMedia swallowed NotFoundError
prepareUndefined(s, op) == Settle(stop(s, s.smallVideoTrack), op, "fail")

\* ------------------------------------------------------- camera keepalive
\* initializeDummyFrame(): a new capture stream of the dummy canvas
initializeDummyFrame(s) ==
    LET s1 == NewTrack(s, "video", "dummy")
        s2 == NewStream(s1, <<LastTrack(s1)>>)
    IN  [s2 EXCEPT !.replacementStream = LastStream(s2)]

\* turnOffLocalCamera(streamId); the id falls back to publishStreamId
turnOffLocalCamera(s, op) ==
    LET s1 == initializeDummyFrame(s)
        s2 == IF s1.localStream # Null
              THEN updateVideoTrack([s1 EXCEPT !.cameraEnabled = FALSE],
                                    s1.replacementStream, TRUE, TRUE, op)
              ELSE s1                       \* callbackError('NoActiveConnection')
    IN  [s2 EXCEPT !.blackFrameTimer = TRUE]

\* turnOnLocalCamera(streamId) up to its await; both branches await the same
\* getUserMedia, the flag remembers which branch was taken
turnOnLocalCamera(s, op) ==
    Await([s EXCEPT !.blackFrameTimer = FALSE],
          [Task("turnOnLocalCamera", op) EXCEPT
              !.sid = TRUE, !.flag = (s.localStream = Null),
              !.wv = Truthy(getMediaConstraints(s).video)])

\* ----------------------------------------------------------- video switches
\* setVideoCameraSource(streamId, {video: ...}, null, true) up to its await
setVideoCameraSource(s, sid, op) ==
    Await(s, [Task("setVideoCameraSource", op) EXCEPT
                 !.sid = sid, !.flag = TRUE,
                 !.wv = Truthy(getMediaConstraints(s).video)])

\* switchVideoCameraCapture(streamId, deviceId) up to its await
switchVideoCameraCapture(s, sid, deviceId, op) ==
    IF s.localStream = Null THEN Settle(s, op, "fail")
    ELSE Await([stop(s, First(getVideoTracks(s, s.localStream)))
                   EXCEPT !.publishMode = "camera"],
               [Task("enumerateDevices", op) EXCEPT !.sid = sid, !.arg = deviceId])

\* switchVideoCameraCapture after `await enumerateDevices()`
afterEnumerateDevices(s, sid, deviceId, op) ==
    LET v == s.mediaConstraints.video
        match == deviceId \in VideoInputs
    IN  IF s.mediaConstraints.isNull THEN Settle(s, op, "fail")
        ELSE IF match /\ v # BoolCon(TRUE) /\ v.t # "obj"
             THEN Settle(s, op, "fail")     \* property set on false / undefined
             ELSE LET s1 == IF ~match THEN s
                            ELSE IF v = BoolCon(TRUE)
                                 THEN [s EXCEPT !.mediaConstraints.video =
                                                    ObjCon(deviceId, "none")]
                                 ELSE [s EXCEPT !.mediaConstraints.video.deviceId =
                                                    deviceId]
                  IN  Settle(setVideoCameraSource(s1, sid, op), op, "ok")

\* switchVideoCameraFacingMode(streamId, facingMode)
switchVideoCameraFacingMode(s, sid, facingMode, op) ==
    IF s.localStream = Null THEN Settle(s, op, "fail")
    ELSE LET s1 == stop(s, First(getVideoTracks(s, s.localStream)))
             v == s.mediaConstraints.video
         IN  IF s.mediaConstraints.isNull THEN Settle(s1, op, "fail")
             ELSE Settle(
                    setVideoCameraSource(
                      [s1 EXCEPT !.mediaConstraints.video =
                                     ObjCon("none", facingMode),
                                 !.publishMode = "camera"], sid, op),
                    op, "ok")

\* setVideoCameraSource after its getUserMedia; acquired = FALSE when
\* getUserMedia swallowed NotFoundError and returned undefined
afterSetVideoCameraSource(s, sid, acquired, op) ==
    IF acquired
    THEN LET s1 == NewTrack(s, "video", "camera")
             s2 == NewStream(s1, <<LastTrack(s1)>>)
         IN  \* stream.getAudioTracks().length > 0 is false: video only
             IF s2.cameraEnabled
             THEN updateVideoTrack(s2, LastStream(s2), sid, TRUE, op)
             ELSE turnOffLocalCamera(s2, op)
    ELSE IF s.secondaryAudioTrackGainNode # NoGain THEN s   \* TypeError
         ELSE IF s.cameraEnabled
              THEN \* updateVideoTrack(undefined) rejects: with a sender at
                   \* once, without one after the desktop track was stopped
                   IF getSender(s, sid, "video") \/ s.desktopStream = Null THEN s
                   ELSE stop(s, First(getVideoTracks(s, s.desktopStream)))
              ELSE turnOffLocalCamera(s, op)

\* ----------------------------------------------------------- audio switches
\* setAudioInputSource(streamId, mediaConstraints, onEnded): reads the
\* undeclared `deviceStream` (or `this.devices`, never set) and throws before
\* it changes anything; the promise it returns is rejected
setAudioInputSource(s) == s

\* switchAudioInputSource(streamId, deviceId); deviceId "none" is undefined
switchAudioInputSource(s, deviceId, op) ==
    IF s.localStream = Null THEN Settle(s, op, "fail")
    ELSE LET s1 == stop(s, First(getAudioTracks(s, s.localStream)))
             a == s.mediaConstraints.audio
         IN  IF deviceId = "none" THEN Settle(setAudioInputSource(s1), op, "ok")
             ELSE IF s.mediaConstraints.isNull \/ (a # BoolCon(TRUE) /\ a.t # "obj")
                  THEN Settle(s1, op, "fail")
                  ELSE Settle(
                         setAudioInputSource(
                           [s1 EXCEPT !.mediaConstraints.audio =
                               IF a = BoolCon(TRUE) THEN ObjCon(deviceId, "none")
                               ELSE [a EXCEPT !.deviceId = deviceId]]),
                         op, "ok")

\* a variant in which the audio part succeeds and alone decides the result
liveUpdate_AudioPartDecides(s, sid, applyOk, op) ==
    LET m == getMediaConstraints(s)
        live == IF m.video.t = "undef" THEN "none"
                ELSE IF s.localStream = Null
                        \/ getVideoTracks(s, s.localStream) = <<>>
                     THEN "notrack"
                     ELSE IF applyOk THEN "ok" ELSE "rejected"
        s1 == [s EXCEPT !.last.live = live, !.last.sid = sid]
    IN  IF m.audio.t # "undef" /\ sid
        THEN Settle(s1, op, "ok")
        ELSE Settle(s1, op, IF live \in {"none", "ok"} THEN "ok" ELSE "fail")

\* the tail changeAudioMode and applyConstraints share: with a video
\* constraint, videoTrack.applyConstraints on the Local Stream's video track
\* (applyOk tells whether the platform resolves it) or a rejected promise
\* when there is no such track; the promise returned is that of
\* setAudioInputSource when an audio constraint is defined and a stream id
\* was given, else that of the live update, else resolved
liveUpdate(s, sid, applyOk, op) ==
    LET m == getMediaConstraints(s)
        live == IF m.video.t = "undef" THEN "none"
                ELSE IF s.localStream = Null
                        \/ getVideoTracks(s, s.localStream) = <<>>
                     THEN "notrack"
                     ELSE IF applyOk THEN "ok" ELSE "rejected"
        s1 == [s EXCEPT !.last.live = live, !.last.sid = sid]
    IN  IF m.audio.t # "undef" /\ sid
        THEN Settle(setAudioInputSource(s1), op, "fail")
        ELSE Settle(s1, op, IF live \in {"none", "ok"} THEN "ok" ELSE "fail")

\* changeAudioMode(audioMode, streamId)
changeAudioMode(s, mode, sid, applyOk, op) ==
    liveUpdate([s EXCEPT !.audioMode = mode], sid, applyOk, op)

\* Object.assign({}, old, new) on two constraint members: the own members of
\* new over those of old; a boolean or undefined has none
Assign(old, new) ==
    ObjCon(IF new.t = "obj" /\ new.deviceId # "none" THEN new.deviceId
           ELSE IF old.t = "obj" THEN old.deviceId ELSE "none",
           IF new.t = "obj" /\ new.facingMode # "none" THEN new.facingMode
           ELSE IF old.t = "obj" THEN old.facingMode ELSE "none")

\* the argument of applyConstraints: its video and audio members, and the
\* members it has itself when it is a bare video constraint
NewConstraints(own, video, audio) ==
    [own |-> own, video |-> video, audio |-> audio]

\* applyConstraints(newConstraints, streamId)
applyConstraints(s, newConstraints, sid, applyOk, op) ==
    IF s.mediaConstraints.isNull
    THEN Settle([s EXCEPT !.last.sid = sid], op, "fail")  \* TypeError
    ELSE LET nv == newConstraints.video
             na == newConstraints.audio
             s1 == IF na.t = "undef" /\ nv.t = "undef"
                   THEN [s EXCEPT !.mediaConstraints.video =
                                      Assign(@, newConstraints.own)]
                   ELSE IF nv.t # "undef"
                        THEN [s EXCEPT !.mediaConstraints.video = Assign(@, nv)]
                        ELSE s
             s2 == IF na.t # "undef"
                   THEN [s1 EXCEPT !.mediaConstraints.audio = Assign(@, na)]
                   ELSE s1
         IN  liveUpdate(s2, sid, applyOk, op)

\* ---------------------------------------------------------------- bandwidth
\* one member of RTCRtpSendParameters.encodings: its maxBitrate (NoBitrate
\* when it has none) and whether it has the members the platform fills in
Encoding(maxBitrate, filled) == [maxBitrate |-> maxBitrate, filled |-> filled]

\* the parameters of a sender: whether `encodings` is there at all, and the
\* encodings
Parameters(defined, encodings) == [defined |-> defined, encodings |-> encodings]

\* no video sender, no parameters
NoParameters == Parameters(FALSE, <<>>)

\* what getParameters() returns for a new sender: without `encodings` on a
\* platform that does not fill it in, else with one encoding and no cap
FreshParameters ==
    {Parameters(FALSE, <<>>), Parameters(TRUE, <<Encoding(NoBitrate, TRUE)>>)}

\* getVideoSender(streamId); capable is the platform test on `adapter` and
\* RTCRtpSender.prototype
getVideoSender(s, sid, capable) == capable /\ getSender(s, sid, "video")

\* a variant that writes a cap for 'unlimited' too
changeBandwidth_Sentinel(s, bandwidth, sid, capable, accepted, op) ==
    IF getVideoSender(s, sid, capable)
    THEN LET p1 == IF ~s.videoParameters.defined
                   THEN Parameters(TRUE, <<Encoding(NoBitrate, FALSE)>>)
                   ELSE s.videoParameters
             p2 == [p1 EXCEPT !.encodings[1].maxBitrate = bandwidth * 1000]
         IN  IF accepted
             THEN Settle([s EXCEPT !.videoParameters = p2,
                                   !.capped = @ \/ bandwidth # Unlimited],
                         op, "ok")
             ELSE Settle(s, op, "fail")
    ELSE Settle(s, op, "fail")

\* changeBandwidth(bandwidth, streamId), bandwidth in kbps or Unlimited;
\* accepted tells whether the platform takes the parameters in setParameters
changeBandwidth(s, bandwidth, sid, capable, accepted, op) ==
    IF getVideoSender(s, sid, capable)
    THEN LET parameters == s.videoParameters
             p1 == IF ~parameters.defined
                   THEN Parameters(TRUE, <<Encoding(NoBitrate, FALSE)>>)
                   ELSE parameters
             p2 == [p1 EXCEPT !.encodings[1].maxBitrate =
                       IF bandwidth = Unlimited THEN NoBitrate
                       ELSE bandwidth * 1000]
         IN  IF accepted
             THEN Settle([s EXCEPT !.videoParameters = p2,
                                   !.capped = @ \/ bandwidth # Unlimited],
                         op, "ok")
             ELSE Settle(s, op, "fail")
    ELSE Settle(s, op, "fail")

\* ------------------------------------------------------------------- close
closeStream(s) ==
    LET s1 == IF s.localStream # Null
              THEN [stopAll(stopAll(stopAll(s, s.tempTracks),
                                    getVideoTracks(s, s.localStream)),
                            getAudioTracks(s, s.localStream))
                       EXCEPT !.tempTracks = <<>>]
              ELSE s
    IN  \* this.videoTrack and this.audioTrack are never assigned
        [stop(stop(s1, s1.smallVideoTrack), s1.previousAudioTrack)
            EXCEPT !.localStream = Null]

\* -------------------------------------------------------------- the heap
\* What the program can still reach: a stream some field or pending
\* continuation refers to, and a track that is in such a stream, is referred
\* to directly, or is still running.  Everything else is garbage; the heap
\* is kept compact, in allocation order.
RefStreams(s) ==
    ({s.localStream, s.desktopStream, s.replacementStream}
        \cup {s.tasks[i].stream : i \in 1..Len(s.tasks)}) \ {Null}

RefTracks(s) ==
    (UNION {Range(s.streams[st]) : st \in RefStreams(s)}
        \cup {s.smallVideoTrack, s.previousAudioTrack}
        \cup Range(s.tempTracks)
        \cup Range(s.overlap.base)
        \cup {s.tasks[i].track : i \in 1..Len(s.tasks)}
        \cup {s.senderTrack.audio, s.senderTrack.video}
        \cup {t \in 1..Len(s.tracks) : s.tracks[t].live}) \ {Null, NoSender}

\* the new id of object x when only the objects K are kept
Rank(K, x) == IF x \in K THEN Cardinality({k \in K : k <= x}) ELSE x

\* the objects K in allocation order, out of the ids 1..n
Kept(K, n) == SelectSeq([i \in 1..n |-> i], LAMBDA i : i \in K)

MapSeq(q, K) == [j \in 1..Len(q) |-> Rank(K, q[j])]

\* an operation whose promise settled and that has no continuation pending
\* leaves `ops`; the step keeps the record of the operation it belonged to
Retire(s) ==
    LET s1 == IF s.last.op = 0 THEN s
              ELSE [s EXCEPT !.last.rec = s.ops[s.last.op]]
    IN  [s1 EXCEPT !.ops =
            [o \in Slots |->
                IF s1.ops[o].res # "pending"
                   /\ \A i \in 1..Len(s1.tasks) : s1.tasks[i].op # o
                THEN FreeOp ELSE s1.ops[o]]]

\* s with the streams KS and the tracks KT kept (ks, kt in allocation order)
Compact(s, KS, KT, ks, kt) ==
    LET KC == {s.audioContext, s.primaryAudioTrackGainNode.ctx,
               s.secondaryAudioTrackGainNode.ctx} \ {0}
    IN  [s EXCEPT
            !.tracks = [i \in 1..Len(kt) |-> s.tracks[kt[i]]],
            !.streams = [i \in 1..Len(ks) |-> MapSeq(s.streams[ks[i]], KT)],
            !.localStream = Rank(KS, @),
            !.desktopStream = Rank(KS, @),
            !.replacementStream = Rank(KS, @),
            !.smallVideoTrack = Rank(KT, @),
            !.previousAudioTrack = Rank(KT, @),
            !.tempTracks = MapSeq(@, KT),
            !.overlap.base = MapSeq(@, KT),
            !.senderTrack = [audio |-> Rank(KT, @.audio),
                             video |-> Rank(KT, @.video)],
            !.tasks = [i \in 1..Len(s.tasks) |->
                          [s.tasks[i] EXCEPT !.stream = Rank(KS, @),
                                             !.track = Rank(KT, @)]],
            !.audioContext = Rank(KC, @),
            !.primaryAudioTrackGainNode.ctx = Rank(KC, @),
            !.secondaryAudioTrackGainNode.ctx = Rank(KC, @)]

Collect(s0) ==
    CHOOSE c \in {Compact(s, KS, KT, Kept(KS, Len(s.streams)),
                          Kept(KT, Len(s.tracks))) :
                     s \in {Retire(s0)},
                     KS \in {RefStreams(Retire(s0))},
                     KT \in {RefTracks(Retire(s0))}} : TRUE

\* the step ends in state s
Commit(s0) ==
    \E s \in {Collect(s0)} :
        /\ tracks' = s.tracks
        /\ streams' = s.streams
        /\ localStream' = s.localStream
        /\ desktopStream' = s.desktopStream
        /\ replacementStream' = s.replacementStream
        /\ smallVideoTrack' = s.smallVideoTrack
        /\ previousAudioTrack' = s.previousAudioTrack
        /\ tempTracks' = s.tempTracks
        /\ mediaConstraints' = s.mediaConstraints
        /\ publishMode' = s.publishMode
        /\ audioMode' = s.audioMode
        /\ cameraEnabled' = s.cameraEnabled
        /\ isMuted' = s.isMuted
        /\ blackFrameTimer' = s.blackFrameTimer
        /\ drawTimers' = s.drawTimers
        /\ audioContext' = s.audioContext
        /\ primaryAudioTrackGainNode' = s.primaryAudioTrackGainNode
        /\ secondaryAudioTrackGainNode' = s.secondaryAudioTrackGainNode
        /\ currentVolume' = s.currentVolume
        /\ senderTrack' = s.senderTrack
        /\ videoParameters' = s.videoParameters
        /\ camera_location' = s.camera_location
        /\ camera_margin' = s.camera_margin
        /\ camera_percent' = s.camera_percent
        /\ initialized' = s.initialized
        /\ deviceListeners' = s.deviceListeners
        /\ tasks' = s.tasks
        /\ ops' = s.ops
        /\ nops' = s.nops
        /\ fails' = s.fails
        /\ ticks' = s.ticks
        /\ deviceChanges' = s.deviceChanges
        /\ capped' = s.capped
        /\ overlap' = s.overlap
        /\ last' = s.last

\* ------------------------------------------------------------ initial state
\* the state the constructor leaves, but for the fields a user parameter
\* may set
Constructed ==
    /\ tracks = <<>>
    /\ streams = <<>>
    /\ localStream = Null
    /\ desktopStream = Null
    /\ replacementStream = Null
    /\ smallVideoTrack = Null
    /\ previousAudioTrack = Null
    /\ tempTracks = <<>>
    /\ mediaConstraints = NullConstraints
    /\ publishMode = "camera"
    /\ cameraEnabled = TRUE
    /\ isMuted = FALSE
    /\ blackFrameTimer = FALSE
    /\ drawTimers = 0
    /\ audioContext = 1
    /\ primaryAudioTrackGainNode = NoGain
    /\ secondaryAudioTrackGainNode = NoGain
    /\ currentVolume = NoVolume
    /\ senderTrack = [audio |-> NoSender, video |-> NoSender]
    /\ videoParameters = NoParameters
    /\ initialized = FALSE
    /\ deviceListeners = 0
    /\ tasks = <<>>
    /\ ops = [i \in Slots |-> FreeOp]
    /\ nops = 0
    /\ fails = 0
    /\ ticks = 0
    /\ deviceChanges = 0
    /\ capped = FALSE
    /\ overlap = NoOverlap
    /\ last = Step("constructor", 0, "ok", "none")

\* audioMode given as a user parameter, the compositor's layout as the
\* constructor sets it
Init ==
    /\ Constructed
    /\ audioMode \in AudioModes
    /\ camera_location = "top"
    /\ camera_margin = DefaultMargin
    /\ camera_percent = DefaultPercent

\* the layouts a compositor is given as user parameters
CameraMargins == {0, DefaultMargin}

CameraPercents == {DefaultPercent, 50}

\* the compositor's layout given as user parameters, audioMode as the
\* constructor sets it
InitCompositor ==
    /\ Constructed
    /\ audioMode = "system+microphone"
    /\ camera_location \in CameraLocations
    /\ camera_margin \in CameraMargins
    /\ camera_percent \in CameraPercents

\* --------------------------------------------------------- user operations
\* the constraint sets openStream is called with
OpenConstraints ==
    {Constraints(BoolCon(TRUE), BoolCon(TRUE)),
     Constraints(BoolCon(TRUE), BoolCon(FALSE)),
     Constraints(UndefCon, BoolCon(TRUE))}

\* the device ids a switch is called with; "none" is an omitted argument
DeviceArgs == {"none", "d1"}

FacingModes == {"user"}

\* the user may call an operation
\* a caller that lets every promise settle before the next call
CanCall == nops < MaxOps /\ tasks = <<>>

\* a caller that waits for the promise of its previous call only: promises
\* the operation did not await may still be pending
CanOverlap ==
    nops < MaxOverlapOps /\ \A o \in Slots : ops[o].res # "pending"

OpenStream(mc, may) ==
    /\ may
    /\ LET s == Begin(S, "openStream")
       IN  Commit(openStream(s, mc, <<TRUE>>, CurOp(s)))

CloseStream(may) ==
    /\ may
    /\ LET s == Begin(S, "closeStream")
       IN  Commit(Settle(closeStream(s), CurOp(s), "ok"))

SwitchDesktopCapture(may) ==
    /\ may
    /\ LET s == [Begin(S, "switchDesktopCapture") EXCEPT !.publishMode = "screen"]
       IN  Commit(getMedia(s, getMediaConstraints(s), <<TRUE>>, CurOp(s)))

SwitchDesktopCaptureWithCamera(may) ==
    /\ may
    /\ LET s == [Begin(S, "switchDesktopCaptureWithCamera")
                    EXCEPT !.publishMode = "screen+camera"]
       IN  Commit(getMedia(s, getMediaConstraints(s), <<TRUE>>, CurOp(s)))

SwitchVideoCameraCapture(deviceId, may) ==
    /\ may
    /\ LET s == [Begin(S, "switchVideoCameraCapture")
                    EXCEPT !.last.deviceId = deviceId]
       IN  Commit(switchVideoCameraCapture(s, TRUE, deviceId, CurOp(s)))

SwitchVideoCameraFacingMode(facingMode, may) ==
    /\ may
    /\ LET s == Begin(S, "switchVideoCameraFacingMode")
       IN  Commit(switchVideoCameraFacingMode(s, TRUE, facingMode, CurOp(s)))

SwitchAudioInputSource(deviceId, may) ==
    /\ may
    /\ LET s == [Begin(S, "switchAudioInputSource")
                    EXCEPT !.last.deviceId = deviceId]
       IN  Commit(switchAudioInputSource(s, deviceId, CurOp(s)))

ChangeAudioMode(mode, sid, applyOk, may) ==
    /\ may
    /\ LET s == Begin(S, "changeAudioMode")
       IN  Commit(changeAudioMode(s, mode, sid, applyOk, CurOp(s)))

\* the constraints applyConstraints is called with: a bare video constraint,
\* a video member, an audio member, both members as booleans
ApplyArgs ==
    {NewConstraints(ObjCon("none", "user"), UndefCon, UndefCon),
     NewConstraints(ObjCon("none", "none"), ObjCon("d1", "none"), UndefCon),
     NewConstraints(ObjCon("none", "none"), UndefCon, ObjCon("d1", "none")),
     NewConstraints(ObjCon("none", "none"), BoolCon(TRUE), BoolCon(TRUE))}

ApplyConstraints(newConstraints, sid, applyOk, may) ==
    /\ may
    /\ LET s == Begin(S, "applyConstraints")
       IN  Commit(applyConstraints(s, newConstraints, sid, applyOk, CurOp(s)))

TurnOffLocalCamera(may) ==
    /\ may
    /\ LET s == Begin(S, "turnOffLocalCamera")
       IN  Commit(Settle(turnOffLocalCamera(s, CurOp(s)), CurOp(s), "ok"))

TurnOnLocalCamera(may) ==
    /\ may
    /\ LET s == Begin(S, "turnOnLocalCamera")
       IN  Commit(turnOnLocalCamera(s, CurOp(s)))

MuteLocalMic(may) ==
    /\ may
    /\ LET s == Begin(S, "muteLocalMic")
       IN  Commit(Settle(muteLocalMic(s), CurOp(s), "ok"))

UnmuteLocalMic(may) ==
    /\ may
    /\ LET s == Begin(S, "unmuteLocalMic")
       IN  Commit(Settle(unmuteLocalMic(s), CurOp(s), "ok"))

\* the levels setVolumeLevel is called with, in tenths
Volumes == {4, 7}

SetVolumeLevel(volumeLevel, may) ==
    /\ may
    /\ LET s == [Begin(S, "setVolumeLevel") EXCEPT !.last.arg = volumeLevel]
       IN  Commit(Settle(setVolumeLevel(s, volumeLevel), CurOp(s), "ok"))

\* the gain asked for is kept as the step's argument
EnableSecondStreamInMixedAudio(enable, may) ==
    /\ may
    /\ LET s == [Begin(S, "enableSecondStreamInMixedAudio") EXCEPT
                    !.last.arg = IF enable THEN Unity ELSE 0]
       IN  Commit(enableSecondStreamInMixedAudio(s, enable, CurOp(s)))

\* the caps changeBandwidth is called with, in kbps
Bandwidths == {Unlimited, 300}

ChangeBandwidth(bandwidth, capable, accepted, may) ==
    /\ may
    /\ LET s == [Begin(S, "changeBandwidth") EXCEPT !.last.arg = bandwidth]
       IN  Commit(changeBandwidth(s, bandwidth, TRUE, capable, accepted,
                                  CurOp(s)))

\* ------------------------------------------------------- the sender registry
\* the transport session starts publishing the Local Stream: one sender per
\* track of the stream, the video sender with new parameters
Publish(may) ==
    /\ may
    /\ localStream # Null
    /\ senderTrack = [audio |-> NoSender, video |-> NoSender]
    /\ LET s == Begin(S, "publish")
           a == First(getAudioTracks(s, localStream))
           v == First(getVideoTracks(s, localStream))
       IN  \E p \in IF v = Null THEN {NoParameters} ELSE FreshParameters :
               Commit(Settle([s EXCEPT
                                 !.senderTrack =
                                     [audio |-> IF a = Null THEN NoSender ELSE a,
                                      video |-> IF v = Null THEN NoSender ELSE v],
                                 !.videoParameters = p,
                                 !.capped = FALSE],
                             CurOp(s), "ok"))

\* the transport session is stopped: its senders are gone
StopPublish(may) ==
    /\ may
    /\ senderTrack # [audio |-> NoSender, video |-> NoSender]
    /\ LET s == Begin(S, "stop")
       IN  Commit(Settle([s EXCEPT !.senderTrack =
                             [audio |-> NoSender, video |-> NoSender],
                                   !.videoParameters = NoParameters,
                                   !.capped = FALSE],
                         CurOp(s), "ok"))

\* ------------------------------------------------- platform promises settle
\* the state in which the continuation of tasks[i] starts to run
Take(i, out) ==
    [S EXCEPT !.tasks = SubSeq(@, 1, i - 1) \o SubSeq(@, i + 1, Len(@)),
              !.last = [Step(tasks[i].k, tasks[i].op, out, tasks[i].kind)
                           EXCEPT !.deviceId = tasks[i].arg]]

\* the same, for a promise the platform rejects
Reject(i, out) == [Take(i, out) EXCEPT !.fails = @ + 1]

CanFail == fails < MaxFails

Pending(k) == {i \in 1..Len(tasks) : tasks[i].k = k}

\* a stream as the platform returns it: one track per kind asked for
Acquire(s, wv, vsrc, wa, asrc) ==
    LET s1 == IF wv THEN NewTrack(s, "video", vsrc) ELSE s
        vs == IF wv THEN <<LastTrack(s1)>> ELSE <<>>
        s2 == IF wa THEN NewTrack(s1, "audio", asrc) ELSE s1
        as == IF wa THEN <<LastTrack(s2)>> ELSE <<>>
    IN  NewStream(s2, vs \o as)

\* getMedia -> getUserMedia(mediaConstraints, true) resolves
GetUserMediaOk ==
    \E i \in Pending("getUserMedia") :
        /\ tasks[i].wv \/ tasks[i].wa
        /\ LET s == Acquire(Take(i, "ok"), tasks[i].wv, "camera",
                            tasks[i].wa, "microphone")
           IN  Commit(prepareStream(s, LastStream(s), Head(tasks[i].frames),
                                    Tail(tasks[i].frames), tasks[i].op))

\* ... rejects with NotFoundError: getDevices(), and undefined is returned
GetUserMediaNotFound ==
    \E i \in Pending("getUserMedia") :
        /\ CanFail
        /\ Commit(prepareUndefined(getDevices(Reject(i, "NotFoundError"), 0, FALSE),
                                   tasks[i].op))

\* ... rejects with another error: callbackError and rethrow
GetUserMediaError ==
    \E i \in Pending("getUserMedia") :
        /\ CanFail
        /\ Commit(Settle(Reject(i, "error"), tasks[i].op, "fail"))

\* getDisplayMedia resolves, with system audio or without
GetDisplayMediaOk(withAudio) ==
    \E i \in Pending("getDisplayMedia") :
        /\ tasks[i].wv
        /\ withAudio => tasks[i].wa
        /\ LET s == Acquire(Take(i, "ok"), TRUE, "screen", withAudio, "system")
           IN  Commit(prepareStream(s, LastStream(s), Head(tasks[i].frames),
                                    Tail(tasks[i].frames), tasks[i].op))

\* getDisplayMedia rejects with NotAllowedError; fallback is what
\* callbackError('ScreenSharePermissionDenied') returned, compared with false
GetDisplayMediaDenied(fallback) ==
    \E i \in Pending("getDisplayMedia") :
        /\ CanFail
        /\ LET s == [Reject(i, "NotAllowedError") EXCEPT
                        !.ops[tasks[i].op].fallback = fallback]
           IN  IF fallback /\ s.localStream = Null
               THEN Commit(openStream(s, Constraints(BoolCon(TRUE), BoolCon(TRUE)),
                                      <<FALSE>> \o tasks[i].frames, tasks[i].op))
               \* overridden: rethrown; a stream is active: `streamId` is
               \* not declared in getDisplayMedia, a ReferenceError
               ELSE Commit(Settle(s, tasks[i].op, "fail"))

\* getDisplayMedia rejects with another error
GetDisplayMediaError ==
    \E i \in Pending("getDisplayMedia") :
        /\ CanFail
        /\ Commit(Settle(Reject(i, "error"), tasks[i].op, "fail"))

\* prepareAudioStream -> getUserMedia({audio}, true) resolves
AudioOk ==
    \E i \in Pending("audio") :
        LET s1 == Acquire(Take(i, "ok"), FALSE, "camera", TRUE, "microphone")
            s2 == setGainNodeStream(s1, LastStream(s1))
            s3 == IF tasks[i].flag
                  THEN mixAudioStreams(s2, tasks[i].stream, s2.ret)
                  ELSE s2
        IN  Commit(afterAudio(s3, tasks[i].stream, s3.ret, tasks[i].sid,
                              tasks[i].frames, tasks[i].op))

\* ... rejects with NotFoundError: getUserMedia returns undefined, and
\* setGainNodeStream(undefined) throws a TypeError unless the audio
\* constraint has become falsy; then mixAudioStreams(deviceStream, undefined)
\* throws after it has made a new context and the primary branch, and in
\* camera mode undefined.getAudioTracks() throws
AudioNotFound ==
    \E i \in Pending("audio") :
        /\ CanFail
        /\ LET s == getDevices(Reject(i, "NotFoundError"), 0, FALSE)
               hasAudio == getAudioTracks(s, tasks[i].stream) # <<>>
               ctx == s.audioContext + 1
           IN  IF Truthy(getMediaConstraints(s).audio)
               THEN Commit(Settle(s, tasks[i].op, "fail"))
               ELSE IF tasks[i].flag
               THEN Commit(Settle(
                        [s EXCEPT !.audioContext = ctx,
                                  !.primaryAudioTrackGainNode =
                                      IF hasAudio
                                      THEN [ctx |-> ctx, gain |-> Unity] ELSE @],
                        tasks[i].op, "fail"))
               ELSE IF s.publishMode = "camera"
               THEN Commit(Settle(s, tasks[i].op, "fail"))
               \* updateAudioTrack(undefined) rejects, unobserved
               ELSE Commit(finish(gotStream(s, tasks[i].stream), tasks[i].stream,
                                  tasks[i].frames, tasks[i].op))

\* ... rejects with another error
AudioError ==
    \E i \in Pending("audio") :
        /\ CanFail
        /\ Commit(Settle(Reject(i, "error"), tasks[i].op, "fail"))

\* setDesktopWithCameraSource after its getUserMedia resolved
OverlayOk ==
    \E i \in Pending("overlay") :
        LET s1 == Acquire(Take(i, "ok"), TRUE, "camera", FALSE, "microphone")
            s2 == [s1 EXCEPT !.smallVideoTrack = LastTrack(s1)]
            s3 == Acquire(s2, TRUE, "canvas", FALSE, "microphone")
            canvasStream == LastStream(s3)
            s4 == IF s3.localStream = Null THEN gotStream(s3, canvasStream)
                  ELSE updateVideoTrack(s3, canvasStream, tasks[i].sid, FALSE,
                                        tasks[i].op)
        IN  Commit([s4 EXCEPT !.drawTimers = @ + 1])

\* ... rejected with NotFoundError: getDevices(), and undefined
\* .getVideoTracks() throws; nobody awaits setDesktopWithCameraSource
OverlayNotFound ==
    \E i \in Pending("overlay") :
        /\ CanFail
        /\ Commit(getDevices(Reject(i, "NotFoundError"), 0, FALSE))

\* ... rejected with another error: nobody awaits setDesktopWithCameraSource
OverlayFail ==
    \E i \in Pending("overlay") :
        /\ CanFail
        /\ Commit(Reject(i, "error"))

\* replaceTrack calls on one sender settle in the order they were made
Oldest(i) == \A j \in 1..(i - 1) :
                ~(tasks[j].k = "replaceTrack" /\ tasks[j].kind = tasks[i].kind)

\* sender.replaceTrack(track) resolves: the sender transmits the track, and
\* updateAudioTrack / updateVideoTrack goes on to the Local Stream
ReplaceTrackOk ==
    \E i \in Pending("replaceTrack") :
        /\ Oldest(i)
        /\ senderTrack[tasks[i].kind] # NoSender
        /\ LET s == [Take(i, "ok") EXCEPT !.senderTrack[tasks[i].kind] = tasks[i].track]
           IN  IF tasks[i].kind = "audio"
               THEN Commit(updateLocalAudioStream(s, tasks[i].stream))
               ELSE Commit(updateLocalVideoStream(s, tasks[i].stream, tasks[i].flag))

\* sender.replaceTrack(track) rejects: nobody awaits updateXTrack
ReplaceTrackFail ==
    \E i \in Pending("replaceTrack") :
        /\ Oldest(i)
        /\ CanFail
        /\ Commit([Reject(i, "error") EXCEPT
                      !.ops[tasks[i].op].replaceFailed = tasks[i].kind])

\* enumerateDevices resolves in switchVideoCameraCapture
EnumerateDevicesOk ==
    \E i \in Pending("enumerateDevices") :
        Commit(afterEnumerateDevices(Take(i, "ok"), tasks[i].sid, tasks[i].arg,
                                     tasks[i].op))

SetVideoCameraSourceOk ==
    \E i \in Pending("setVideoCameraSource") :
        /\ tasks[i].wv
        /\ Commit(afterSetVideoCameraSource(Take(i, "ok"), tasks[i].sid, TRUE,
                                            tasks[i].op))

SetVideoCameraSourceNotFound ==
    \E i \in Pending("setVideoCameraSource") :
        /\ CanFail
        /\ Commit(afterSetVideoCameraSource(
                      getDevices(Reject(i, "NotFoundError"), 0, FALSE),
                      tasks[i].sid, FALSE, tasks[i].op))

SetVideoCameraSourceError ==
    \E i \in Pending("setVideoCameraSource") :
        /\ CanFail
        /\ Commit(Reject(i, "error"))

\* turnOnLocalCamera after its getUserMedia resolved
TurnOnLocalCameraOk ==
    \E i \in Pending("turnOnLocalCamera") :
        /\ tasks[i].wv
        /\ LET s == Acquire(Take(i, "ok"), TRUE, "camera", FALSE, "microphone")
               stream == LastStream(s)
           IN  IF tasks[i].flag
               THEN Commit(Settle(gotStream(s, stream), tasks[i].op, "ok"))
               ELSE Commit(Settle(
                        updateVideoTrack([s EXCEPT !.cameraEnabled = TRUE],
                                         stream, TRUE, TRUE, tasks[i].op),
                        tasks[i].op, "ok"))

\* ... rejected: getUserMedia(..., false) passes every error on
TurnOnLocalCameraFail ==
    \E i \in Pending("turnOnLocalCamera") :
        /\ CanFail
        /\ Commit(Settle(Reject(i, "error"), tasks[i].op, "fail"))

\* ------------------------------------------------------------------ devices
\* enumerateDevices resolves in getDevices: callback('available_devices'),
\* and with no audio input and no Local Stream an alert, as
\* inputDeviceNotFoundLimit is never set and `undefined < 2` is false
GetDevicesOk ==
    \E i \in Pending("getDevices") :
        IF tasks[i].flag
        THEN Commit(afterGetDevices(Take(i, "ok"), tasks[i].op))
        ELSE Commit(Take(i, "ok"))

\* enumerateDevices rejects in getDevices: the error is logged, and
\* getDevices returns as usual
GetDevicesFail ==
    \E i \in Pending("getDevices") :
        IF tasks[i].flag
        THEN Commit(afterGetDevices(Reject(i, "error"), tasks[i].op))
        ELSE Commit(Reject(i, "error"))

\* the platform's 'devicechange' event: every listener calls getDevices()
RECURSIVE notify(_, _)
notify(s, n) == IF n = 0 THEN s ELSE notify(getDevices(s, 0, FALSE), n - 1)

DeviceChange ==
    /\ deviceChanges < MaxDeviceChanges
    /\ Commit(notify([S EXCEPT !.deviceChanges = @ + 1,
                               !.last = Step("devicechange", 0, "ok", "none")],
                     deviceListeners))

Initialize(may) ==
    /\ may
    /\ LET s == Begin(S, "initialize")
       IN  Commit(initialize(s, CurOp(s)))

\* ------------------------------------------------------------------- timers
\* the setInterval of turnOffLocalCamera fires
BlackFrameTick ==
    /\ blackFrameTimer
    /\ ticks < MaxTicks
    /\ Commit([initializeDummyFrame(S) EXCEPT
                  !.ticks = @ + 1,
                  !.last = Step("blackFrameTick", 0, "ok", "video")])

\* a setInterval of setDesktopWithCameraSource fires: the canvas is redrawn
\* from the screen video, which has the size screenVideo by now
CompositorTick(screenVideo) ==
    /\ drawTimers > 0
    /\ Commit([S EXCEPT
                  !.last = [Step("compositorTick", 0, "ok", "video") EXCEPT
                               !.draw = draw(S, screenVideo, CameraSize)]])

Next ==
    \/ \E mc \in OpenConstraints : OpenStream(mc, CanCall)
    \/ CloseStream(CanCall)
    \/ SwitchDesktopCapture(CanCall)
    \/ SwitchDesktopCaptureWithCamera(CanCall)
    \/ \E d \in DeviceArgs : SwitchVideoCameraCapture(d, CanCall)
    \/ \E f \in FacingModes : SwitchVideoCameraFacingMode(f, CanCall)
    \/ \E d \in DeviceArgs : SwitchAudioInputSource(d, CanCall)
    \/ \E m \in AudioModes, applyOk \in BOOLEAN :
           ChangeAudioMode(m, TRUE, applyOk, CanCall)
    \/ TurnOffLocalCamera(CanCall)
    \/ TurnOnLocalCamera(CanCall)
    \/ MuteLocalMic(CanCall)
    \/ UnmuteLocalMic(CanCall)
    \/ \E v \in Volumes : SetVolumeLevel(v, CanCall)
    \/ \E b \in Bandwidths, capable \in BOOLEAN, accepted \in BOOLEAN :
           ChangeBandwidth(b, capable, accepted, CanCall)
    \/ Publish(CanCall)
    \/ StopPublish(CanCall)
    \/ GetUserMediaOk
    \/ GetUserMediaNotFound
    \/ GetUserMediaError
    \/ \E withAudio \in BOOLEAN : GetDisplayMediaOk(withAudio)
    \/ \E fallback \in BOOLEAN : GetDisplayMediaDenied(fallback)
    \/ GetDisplayMediaError
    \/ AudioOk
    \/ AudioNotFound
    \/ AudioError
    \/ OverlayOk
    \/ OverlayNotFound
    \/ OverlayFail
    \/ GetDevicesOk
    \/ ReplaceTrackOk
    \/ ReplaceTrackFail
    \/ EnumerateDevicesOk
    \/ SetVideoCameraSourceOk
    \/ SetVideoCameraSourceNotFound
    \/ SetVideoCameraSourceError
    \/ TurnOnLocalCameraOk
    \/ TurnOnLocalCameraFail
    \/ BlackFrameTick
    \/ \E screenVideo \in ScreenSizes : CompositorTick(screenVideo)

\* the operations on the streams, the tracks and the senders, called one
\* after the other
Spec == Init /\ [][Next]_vars

\* the capture operations on a published stream, each called as soon as the
\* previous one has returned
NextOverlap ==
    \/ OpenStream(Constraints(BoolCon(TRUE), BoolCon(TRUE)), CanOverlap)
    \/ CloseStream(CanOverlap)
    \/ SwitchDesktopCapture(CanOverlap)
    \/ \E d \in VideoInputs : SwitchVideoCameraCapture(d, CanOverlap)
    \/ Publish(CanOverlap)
    \/ GetUserMediaOk
    \/ \E withAudio \in BOOLEAN : GetDisplayMediaOk(withAudio)
    \/ AudioOk
    \/ ReplaceTrackOk
    \/ EnumerateDevicesOk
    \/ SetVideoCameraSourceOk

SpecOverlap == Init /\ [][NextOverlap]_vars

\* the bandwidth cap of a published stream, each operation called as soon as
\* the previous one has returned
NextBandwidth ==
    \/ \E mc \in OpenConstraints : OpenStream(mc, CanOverlap)
    \/ CloseStream(CanOverlap)
    \/ Publish(CanOverlap)
    \/ StopPublish(CanOverlap)
    \/ \E b \in Bandwidths, capable \in BOOLEAN, accepted \in BOOLEAN :
           ChangeBandwidth(b, capable, accepted, CanOverlap)
    \/ GetUserMediaOk
    \/ AudioOk

SpecBandwidth == Init /\ [][NextBandwidth]_vars

\* the compositor under every layout, the screen modes called one after the
\* other
NextCompositor ==
    \/ SwitchDesktopCaptureWithCamera(CanCall)
    \/ SwitchDesktopCapture(CanCall)
    \/ CloseStream(CanCall)
    \/ \E withAudio \in BOOLEAN : GetDisplayMediaOk(withAudio)
    \/ OverlayOk
    \/ \E screenVideo \in ScreenSizes : CompositorTick(screenVideo)

SpecCompositor == InitCompositor /\ [][NextCompositor]_vars

\* the audio graph: the operations that build it and those that set its
\* gains, called one after the other
NextAudio ==
    \/ \E mc \in OpenConstraints : OpenStream(mc, CanCall)
    \/ SwitchDesktopCapture(CanCall)
    \/ CloseStream(CanCall)
    \/ \E v \in Volumes : SetVolumeLevel(v, CanCall)
    \/ \E enable \in BOOLEAN : EnableSecondStreamInMixedAudio(enable, CanCall)
    \/ GetUserMediaOk
    \/ \E withAudio \in BOOLEAN : GetDisplayMediaOk(withAudio)
    \/ AudioOk

SpecAudio == Init /\ [][NextAudio]_vars

\* the device list: initialize, the platform's device-change notifications
\* and the acquisitions that re-enumerate
NextDevices ==
    \/ Initialize(CanCall)
    \/ DeviceChange
    \/ \E mc \in OpenConstraints : OpenStream(mc, CanCall)
    \/ CloseStream(CanCall)
    \/ GetUserMediaOk
    \/ GetUserMediaNotFound
    \/ AudioOk
    \/ AudioNotFound
    \/ GetDevicesOk
    \/ GetDevicesFail

SpecDevices == Init /\ [][NextDevices]_vars

\* openStream called with a video member only
VideoOnlyConstraints == Constraints(BoolCon(TRUE), UndefCon)

\* the constraint changes on the fly, the operations called one after the
\* other
NextConstraints ==
    \/ \E mc \in OpenConstraints \cup {VideoOnlyConstraints} :
           OpenStream(mc, CanCall)
    \/ CloseStream(CanCall)
    \/ \E m \in AudioModes, sid \in BOOLEAN, applyOk \in BOOLEAN :
           ChangeAudioMode(m, sid, applyOk, CanCall)
    \/ \E nc \in ApplyArgs, sid \in BOOLEAN, applyOk \in BOOLEAN :
           ApplyConstraints(nc, sid, applyOk, CanCall)
    \/ GetUserMediaOk
    \/ AudioOk

SpecConstraints == Init /\ [][NextConstraints]_vars

\* ------------------------------------------------------------- observations
\* the audio tracks and the video tracks of the Local Stream, in order
LocalAudio == IF localStream = Null THEN <<>> ELSE getAudioTracks(S, localStream)

LocalVideo == IF localStream = Null THEN <<>> ELSE getVideoTracks(S, localStream)

\* the tracks of one kind the Local Stream holds
LocalTracks(kind) == IF kind = "audio" THEN LocalAudio ELSE LocalVideo

\* the audio tracks and the video tracks of the Local Stream as they are:
\* kind, source, running, enabled
AudioView == [i \in 1..Len(LocalAudio) |-> tracks[LocalAudio[i]]]

VideoView == [i \in 1..Len(LocalVideo) |-> tracks[LocalVideo[i]]]

\* the gain branches that exist
GainBranches ==
    {primaryAudioTrackGainNode, secondaryAudioTrackGainNode} \ {NoGain}

\* the tracks that are still running
Running == {t \in 1..Len(tracks) : tracks[t].live}

\* the public operations that switch a track
SwitchOps ==
    {"switchVideoCameraCapture", "switchVideoCameraFacingMode",
     "switchAudioInputSource", "switchDesktopCapture",
     "switchDesktopCaptureWithCamera", "turnOffLocalCamera",
     "turnOnLocalCamera"}

\* a sender of this kind exists and transmits a track
Bound(kind) == senderTrack[kind] # NoSender /\ senderTrack[kind] # Null

\* --------------------------------------------------------------- properties
\* C1: whenever a Local Stream exists it holds at most one audio track and
\* at most one video track.
C1_OneTrackPerKind ==
    localStream # Null => Len(LocalAudio) <= 1 /\ Len(LocalVideo) <= 1

\* C2: when switchAudioInputSource has returned on an active Local Stream,
\* the Local Stream holds exactly one audio track.
C2_OneAudioTrackAfterSwitch ==
    (last.a = "switchAudioInputSource" /\ last.out = "ok")
        => Len(LocalAudio) = 1

\* C3: when a replaceTrack has completed and updateAudioTrack or
\* updateVideoTrack has gone on to the Local Stream, the track the sender
\* transmits is the track of that kind the Local Stream holds.
C3_SenderTrackIsLocalTrack ==
    (last.a = "replaceTrack" /\ last.out = "ok")
        => First(LocalTracks(last.kind)) = senderTrack[last.kind]

\* C4: when the replaceTrack of a switch operation has failed, the track of
\* that kind in the Local Stream is still running.
C4_FailedReplaceKeepsTrackRunning ==
    (last.a = "replaceTrack" /\ last.out = "error" /\ last.rec.name \in SwitchOps)
        => \A i \in 1..Len(LocalTracks(last.kind)) :
               tracks[LocalTracks(last.kind)[i]].live

\* C5: a public switch operation on whose behalf a replaceTrack was rejected
\* never resolves as a success.
C5_ReplaceFailurePropagates ==
    (last.rec.name \in SwitchOps /\ last.rec.replaceFailed # "none")
        => last.rec.res # "ok"

\* C6: no step of a switch operation stops the track the sender is bound to
\* (a step other than the completion of replaceTrack leaves the binding as
\* it is, so the sender's track after the step is the one before it).
C6_NeverStoppedWhileBound ==
    [][\A kind \in {"audio", "video"} :
         (/\ last'.rec.name \in SwitchOps
          /\ last'.a # "replaceTrack"
          /\ Bound(kind)
          /\ tracks[senderTrack[kind]].live)
         => tracks'[senderTrack'[kind]].live]_vars

\* C7: when closeStream has returned, no track is running and the Local
\* Stream reference is cleared.
C7_NothingRunningAfterClose ==
    last.a = "closeStream" => Running = {} /\ localStream = Null

\* C8: the step that follows closeStream is never a firing of the
\* blank-frame timer or of the compositor's draw timer.
C8_NoTimerFiresAfterClose ==
    [][last.a = "closeStream"
         => last'.a \notin {"blackFrameTick", "compositorTick"}]_vars

\* C9: whenever the blank-frame timer is set, the camera is disabled.
C9_TimerOnlyWhileDisabled == blackFrameTimer => ~cameraEnabled

\* C10: whenever the camera is disabled and no turnOnLocalCamera is waiting
\* for the camera, the blank-frame timer is set.
C10_DisabledHasTimer ==
    (~cameraEnabled /\ Pending("turnOnLocalCamera") = {}) => blackFrameTimer

\* C11: the compositor's draw timer fires only while Publish Mode is
\* screen+camera: once no operation is in progress any more, a canvas draw
\* happens in screen+camera mode only.
C11_NoDrawOutsideScreenCamera ==
    (last.a = "compositorTick" /\ tasks = <<>>) => publishMode = "screen+camera"

\* C12: on an active Local Stream, toggling mute twice (unmute then mute when
\* muted, mute then unmute when not) leaves the enabled flag of every track,
\* the Mute flag and the tracks of every stream as they were.
C12_ToggleTwiceRestores ==
    localStream # Null =>
        LET s == IF isMuted THEN muteLocalMic(unmuteLocalMic(S))
                 ELSE unmuteLocalMic(muteLocalMic(S))
        IN  s.tracks = tracks /\ s.isMuted = isMuted /\ s.streams = streams

\* C13: a step of muteLocalMic or unmuteLocalMic leaves the Local Stream's
\* video tracks, Camera-Enabled and the blank-frame timer as they were, and
\* every step of turnOffLocalCamera or turnOnLocalCamera (the call and its
\* continuations) leaves the Local Stream's audio tracks, their enabled
\* flags and the Mute flag as they were.
C13_MuteAndKeepaliveOrthogonal ==
    [][/\ last'.a \in {"muteLocalMic", "unmuteLocalMic"}
          => /\ VideoView' = VideoView
             /\ cameraEnabled' = cameraEnabled
             /\ blackFrameTimer' = blackFrameTimer
             /\ replacementStream' = replacementStream
       /\ last'.rec.name \in {"turnOffLocalCamera", "turnOnLocalCamera"}
          => /\ AudioView' = AudioView
             /\ isMuted' = isMuted]_vars

\* the camera was turned off on a muted Local Stream that has an audio track
C13_Witness ==
    /\ last.a = "turnOffLocalCamera"
    /\ isMuted /\ ~cameraEnabled /\ blackFrameTimer
    /\ LocalAudio # <<>> /\ LocalVideo # <<>>
    /\ ~tracks[LocalAudio[1]].enabled

\* C14: once a volume level has been set, every gain branch that exists has
\* that level (setVolumeLevel writes it to the branches that exist, and a
\* branch built later is to start with it).
C14_NewBranchesTakeVolume ==
    currentVolume # NoVolume
        => \A node \in GainBranches : node.gain = currentVolume

\* C15: setVolumeLevel(v) remembers v, sets the gain of every branch that
\* exists to v and changes nothing else; and the branch setGainNodeStream
\* builds in microphone mode starts with the remembered level (with unity
\* gain when none was ever set).
C15_VolumeRememberedAndApplied ==
    [][/\ last'.a = "setVolumeLevel"
          => /\ currentVolume' = last'.arg
             /\ primaryAudioTrackGainNode' =
                    IF primaryAudioTrackGainNode = NoGain THEN NoGain
                    ELSE [primaryAudioTrackGainNode EXCEPT !.gain = last'.arg]
             /\ secondaryAudioTrackGainNode' =
                    IF secondaryAudioTrackGainNode = NoGain THEN NoGain
                    ELSE [secondaryAudioTrackGainNode EXCEPT !.gain = last'.arg]
             /\ UNCHANGED <<tracks, streams, localStream, desktopStream,
                            replacementStream, smallVideoTrack,
                            previousAudioTrack, tempTracks, mediaConstraints,
                            publishMode, audioMode, cameraEnabled, isMuted,
                            blackFrameTimer, drawTimers, audioContext,
                            senderTrack, videoParameters, camera_location,
                            camera_margin, camera_percent, initialized,
                            deviceListeners, tasks>>
       /\ (/\ last'.a = "audio" /\ last'.out = "ok"
           /\ audioMode = "microphone"
           /\ Truthy(getMediaConstraints(S).audio))
          => /\ primaryAudioTrackGainNode' # NoGain
             /\ primaryAudioTrackGainNode'.gain =
                    IF currentVolume = NoVolume THEN Unity
                    ELSE currentVolume]_vars

\* a level was set while no gain branch existed, and the microphone-mode
\* graph built afterwards has it
C15_Witness ==
    /\ last.a = "audio" /\ last.out = "ok"
    /\ audioMode = "microphone"
    /\ currentVolume \in Volumes
    /\ secondaryAudioTrackGainNode = NoGain
    /\ primaryAudioTrackGainNode # NoGain
    /\ primaryAudioTrackGainNode.gain = currentVolume
    /\ nops = 2

\* C16: when a display capture was denied while no Local Stream is active
\* and the fallback is taken, the acquisition that follows is a user-media
\* capture, not another display capture.
C16_FallbackUsesUserMedia ==
    (last.a = "getDisplayMedia" /\ last.out = "NotAllowedError")
        => /\ Pending("getDisplayMedia") = {}
           /\ Pending("getUserMedia") # {}

\* C17: when an operation in which the display-capture fallback was taken
\* has resolved, Publish Mode is camera.
C17_FallbackLeavesCameraMode ==
    (last.rec.fallback /\ last.rec.res = "ok") => publishMode = "camera"

\* C18: when a display capture is denied while a Local Stream is active and
\* the fallback is not overridden, the session is switched back to camera
\* capture: Publish Mode is camera.
C18_DeniedWithStreamSwitchesToCamera ==
    (/\ last.a = "getDisplayMedia" /\ last.out = "fail"
     /\ last.rec.fallback /\ localStream # Null)
        => publishMode = "camera"

\* C19 as stated: a changeBandwidth that succeeds commits the parameters as
\* they were read from the sender but for maxBitrate of the first encoding,
\* which is absent for 'unlimited' and bandwidth * 1000 otherwise.
C19_ParametersAsReadButMaxBitrate ==
    [][(last'.a = "changeBandwidth" /\ last'.out = "ok")
          => /\ videoParameters'.defined = videoParameters.defined
             /\ Len(videoParameters'.encodings) = Len(videoParameters.encodings)
             /\ \A i \in 1..Len(videoParameters.encodings) :
                    /\ videoParameters'.encodings[i].filled =
                           videoParameters.encodings[i].filled
                    /\ videoParameters'.encodings[i].maxBitrate =
                           IF i > 1 THEN videoParameters.encodings[i].maxBitrate
                           ELSE IF last'.arg = Unlimited THEN NoBitrate
                           ELSE last'.arg * 1000]_vars

\* C19: a changeBandwidth that succeeds commits the parameters it read from
\* the sender, with a list of one empty encoding added when the sender
\* reported no encodings, and with only maxBitrate of the first encoding
\* changed: absent for 'unlimited', also after a numeric cap was set, and
\* bandwidth * 1000 otherwise.
C19_BandwidthSetsOnlyMaxBitrate ==
    [][(last'.a = "changeBandwidth" /\ last'.out = "ok")
          => LET read == IF videoParameters.defined THEN videoParameters
                         ELSE Parameters(TRUE, <<Encoding(NoBitrate, FALSE)>>)
                 maxBitrate == IF last'.arg = Unlimited THEN NoBitrate
                               ELSE last'.arg * 1000
             IN  /\ videoParameters'.defined
                 /\ Len(videoParameters'.encodings) = Len(read.encodings)
                 /\ videoParameters'.encodings[1].maxBitrate = maxBitrate
                 /\ videoParameters' =
                        [read EXCEPT !.encodings[1].maxBitrate = maxBitrate]]_vars

\* 'unlimited' was set after a numeric cap: the encoding has no maxBitrate
C19_Witness ==
    /\ last.a = "changeBandwidth" /\ last.out = "ok"
    /\ last.arg = Unlimited
    /\ capped
    /\ videoParameters.encodings[1].maxBitrate = NoBitrate

\* C20: a compositor tick gives the canvas the size the screen video has at
\* that tick and draws the camera with width screenWidth * percent / 100 at
\* x = canvasWidth - width - margin and y = margin for 'top', else
\* y = canvasHeight - height - margin (lengths in hundredths of a pixel);
\* for 1280x720, percent 15, margin 15, top: width 192, x 1073, y 15.
C20_OverlayGeometry ==
    last.a = "compositorTick" =>
        LET d == last.draw
        IN  /\ d.canvasWidth = d.videoWidth
            /\ d.canvasHeight = d.videoHeight
            /\ d.cameraWidth = d.videoWidth * camera_percent
            /\ d.positionX = d.canvasWidth * 100 - d.cameraWidth
                             - camera_margin * 100
            /\ d.positionY = IF camera_location = "top"
                             THEN camera_margin * 100
                             ELSE d.canvasHeight * 100 - d.cameraHeight
                                  - camera_margin * 100
            /\ (/\ d.videoWidth = 1280 /\ d.videoHeight = 720
                /\ camera_percent = 15 /\ camera_margin = 15
                /\ camera_location = "top")
               => /\ d.cameraWidth = 19200
                  /\ d.positionX = 107300
                  /\ d.positionY = 1500

\* the tick of the scenario: 1280x720, percent 15, margin 15, top
C20_Witness ==
    /\ last.a = "compositorTick"
    /\ last.draw.videoWidth = 1280 /\ last.draw.videoHeight = 720
    /\ camera_percent = 15 /\ camera_margin = 15 /\ camera_location = "top"
    /\ last.draw.cameraWidth = 19200
    /\ last.draw.positionX = 107300

\* C21: in every quiescent state (no continuation pending) that a step of
\* turnOffLocalCamera, turnOnLocalCamera, switchVideoCameraCapture,
\* switchVideoCameraFacingMode, switchDesktopCapture or
\* switchDesktopCaptureWithCamera leaves with an active Local Stream that has
\* a video track, that track is the blank-frame track if and only if
\* Camera-Enabled is false, and so is the track a video sender transmits.
C21_BlankFrameIffCameraDisabled ==
    (/\ tasks = <<>> /\ localStream # Null /\ LocalVideo # <<>>
     /\ last.rec.name \in SwitchOps \ {"switchAudioInputSource"})
        => /\ (tracks[LocalVideo[1]].src = "dummy") <=> ~cameraEnabled
           /\ Bound("video")
              => ((tracks[senderTrack.video].src = "dummy") <=> ~cameraEnabled)

\* C22: after a graph build (the continuation of the audio acquisition, where
\* setGainNodeStream and mixAudioStreams run), every gain handle the manager
\* holds, primary or secondary, belongs to the current processing context.
C22_HandlesOfCurrentContext ==
    (last.a = "audio" /\ last.out = "ok")
        => \A node \in GainBranches : node.ctx = audioContext

C24_FailedAcquisitionFailsOperation ==
    (/\ last.a \in {"getUserMedia", "audio", "overlay", "setVideoCameraSource",
                    "turnOnLocalCamera"}
     /\ last.out \in {"NotFoundError", "error"})
        => /\ last.rec.res # "ok"
           /\ last.out = "NotFoundError" => Pending("getDevices") # {}

\* C25: when initialize() has returned on a manager, one device-change
\* listener is registered and the manager is initialized, however many times
\* it was called.
C25_InitializeRegistersOneListener ==
    (last.rec.name = "initialize" /\ last.rec.res # "pending")
        => deviceListeners = 1 /\ initialized

\* C26: on an active Local Stream, a step of switchAudioInputSource called
\* with a device id leaves an audio constraint that selects that device and
\* the video constraint as it was; and the step of switchVideoCameraCapture
\* that follows the enumeration, for a device id that is an enumerated video
\* input, leaves a video constraint that selects that device and the audio
\* constraint as it was.
C26_SwitchUpdatesConstraint ==
    [][/\ (/\ last'.a = "switchAudioInputSource" /\ last'.deviceId # "none"
           /\ localStream # Null)
          => /\ ~mediaConstraints'.isNull
             /\ mediaConstraints'.audio.t = "obj"
             /\ mediaConstraints'.audio.deviceId = last'.deviceId
             /\ mediaConstraints'.video = mediaConstraints.video
       /\ (last'.a = "enumerateDevices" /\ last'.deviceId \in VideoInputs)
          => /\ ~mediaConstraints'.isNull
             /\ mediaConstraints'.video.t = "obj"
             /\ mediaConstraints'.video.deviceId = last'.deviceId
             /\ mediaConstraints'.audio = mediaConstraints.audio]_vars

\* C27: once a switchDesktopCaptureWithCamera, or an openStream in
\* screen+camera mode, has resolved, every continuation has run and no
\* platform promise was rejected, the Local Stream it leaves has one video
\* track, the compositor's canvas track.
C27_CanvasTrackIsLocalVideo ==
    (/\ last.rec.name \in {"switchDesktopCaptureWithCamera", "openStream"}
     /\ last.rec.res = "ok"
     /\ publishMode = "screen+camera"
     /\ tasks = <<>> /\ fails = 0
     /\ localStream # Null)
        => /\ Len(LocalVideo) = 1
           /\ tracks[LocalVideo[1]].src = "canvas"

\* C28: a step of enableSecondStreamInMixedAudio(enable) sets the gain of a
\* secondary branch that exists to 1 for true and to 0 for false and leaves
\* the processing context, the branch handles, the primary gain, the
\* remembered volume, the Local Stream and every track as they were; with no
\* secondary branch it changes nothing and raises no error.
C28_SecondaryGainToggle ==
    [][last'.a = "enableSecondStreamInMixedAudio"
          => /\ secondaryAudioTrackGainNode # NoGain
                => secondaryAudioTrackGainNode' =
                       [secondaryAudioTrackGainNode EXCEPT !.gain = last'.arg]
             /\ secondaryAudioTrackGainNode = NoGain
                => /\ secondaryAudioTrackGainNode' = NoGain
                   /\ last'.out = "ok"
             /\ UNCHANGED <<audioContext, primaryAudioTrackGainNode,
                            currentVolume, localStream, streams, tracks>>]_vars

\* C29: in every quiescent state (no continuation pending) with an active
\* Local Stream, every audio track of the Local Stream is enabled if and
\* only if the Mute flag is not set.
C29_MuteFlagMatchesTracks ==
    (tasks = <<>> /\ localStream # Null)
        => \A i \in 1..Len(LocalAudio) :
               tracks[LocalAudio[i]].enabled = ~isMuted

\* C30: a display capture that was not granted leaves the operation it was
\* made for settled, or waiting for at most one further acquisition, which
\* is not a display capture (so that denying every display capture cannot
\* keep the operation from terminating).
C30_DenialEndsDisplayRequests ==
    (last.a = "getDisplayMedia" /\ last.out # "ok")
        => LET mine == {i \in 1..Len(tasks) :
                           /\ tasks[i].op = last.op
                           /\ tasks[i].k \in {"getDisplayMedia", "getUserMedia"}}
           IN  /\ Cardinality(mine) <= 1
               /\ \A i \in mine : tasks[i].k # "getDisplayMedia"
               /\ mine = {} => last.rec.res # "pending"

\* C32: the step after enableSecondStreamInMixedAudio(false) has disabled
\* the secondary branch, unless it is another enableSecondStreamInMixedAudio
\* or rebuilds the graph (a new processing context, a new or no secondary
\* handle), leaves the secondary gain at 0; a setVolumeLevel(v) with v > 0
\* is such a step.
C32_DisabledSecondaryStaysSilent ==
    [][(/\ last.a = "enableSecondStreamInMixedAudio"
        /\ last.arg = 0
        /\ last.out = "ok"
        /\ secondaryAudioTrackGainNode # NoGain
        /\ last'.a # "enableSecondStreamInMixedAudio"
        /\ audioContext' = audioContext
        /\ secondaryAudioTrackGainNode'.ctx = secondaryAudioTrackGainNode.ctx)
          => secondaryAudioTrackGainNode'.gain = 0]_vars

\* C31: when two video switch operations on a published video stream
\* overlapped (the second was called while the first still waited for a
\* platform promise) and both have settled with a Local Stream in place,
\* the Local Stream holds exactly one video track, the video sender
\* transmits that track, and every other video track that one of the two
\* operations acquired has been stopped.
C31_OverlappingSwitchesConverge ==
    (/\ overlap.on
     /\ tasks = <<>>
     /\ localStream # Null
     /\ senderTrack.video # NoSender)
        => /\ Len(LocalVideo) = 1
           /\ senderTrack.video = First(LocalVideo)
           /\ \A t \in Running :
                  (tracks[t].kind = "video" /\ t \notin Range(overlap.base))
                      => t = First(LocalVideo)

====
